---- MODULE Spec2Model ----
(***************************************************************************)
(* Model of the minimization routines of MINIMIZE.CPP: glob_min (grid scan *)
(* with boundary extension), brentmin (Brent's method) and powell          *)
(* (direction-set minimizer).                                              *)
(*                                                                         *)
(* Numbers.  A C double is modelled as a fixed-point number: the integer v *)
(* stands for the real v / FP.  Sums and comparisons are exact; products   *)
(* and quotients are rounded to the nearest representable number, as       *)
(* floating-point products and quotients are.                              *)
(*                                                                         *)
(* Criterion.  In the specifications of glob_min and brentmin the          *)
(* criterion is an unknown pure function: the value at an abscissa is      *)
(* chosen from CritValues the first time the abscissa is evaluated and     *)
(* recorded in memo, and every later evaluation at it returns that value.  *)
(***************************************************************************)
EXTENDS Integers, Sequences, FiniteSets, TLC

VARIABLES g, first, b, memo, evs, p, loc

vars == <<g, first, b, memo, evs, p, loc>>

----------------------------------------------------------------------------
(* Fixed-point arithmetic *)

FP == 1000

Abs(a) == IF a < 0 THEN -a ELSE a

Sgn(a) == IF a < 0 THEN -1 ELSE IF a > 0 THEN 1 ELSE 0

\* quotient of two integers rounded to the nearest integer, ties away from 0
RoundDiv(a, c) == Sgn(a) * Sgn(c) * ((2 * Abs(a) + Abs(c)) \div (2 * Abs(c)))

\* a * b and a / b on doubles
Mul(a, c) == RoundDiv(a * c, FP)

Div(a, c) == RoundDiv(a * FP, c)

----------------------------------------------------------------------------
(* Bounds of the model *)

\* largest number of grid points of a glob_min call
MaxPts == 4

\* boundary-extension evaluations after which a glob_min call that is still
\* descending is abandoned (the code's loop is endless for such a criterion)
MaxExt == 2

\* values the criterion may return
CritValues == {-FP, 0, FP}

\* thresholds tried: below every value, equal to the least, equal to the middle
CritLims == {-2 * FP, -FP, 0}

\* iteration limit given to brentmin
MaxIter == 6

\* inputs of glob_min: grid sizes, interval bounds, spacing modes
GridSizes == 2..MaxPts

Lows == {FP, 10 * FP}

Widths == {6, 440}

----------------------------------------------------------------------------
(* glob_min: the locals and the six outputs of one call *)

\* the for-loop increment of the abscissa, lines 98-101
GlobAdvance(s) ==
    IF s.log_space = 1 THEN Mul(s.x, s.rate) ELSE s.x + s.rate

\* line 63 / line 65: the grid step (a ratio when spacing by log).
\* exp(log(high/low)/(npts-1)) is the (npts-1)-th root of high/low: the
\* largest fixed-point number whose (npts-1)-th power does not exceed it.
RECURSIVE Power(_, _)
Power(r, k) == IF k = 0 THEN FP ELSE Mul(r, Power(r, k - 1))

\* the largest r in lo..hi with r^k <= target, by bisection
RECURSIVE RootBelow(_, _, _, _)
RootBelow(lo, hi, k, target) ==
    IF lo >= hi THEN lo
    ELSE LET mid == (lo + hi + 1) \div 2
         IN  IF Power(mid, k) <= target THEN RootBelow(mid, hi, k, target)
                                        ELSE RootBelow(lo, mid - 1, k, target)

GlobRate(low, high, npts, log_space) ==
    IF log_space = 1
       THEN RootBelow(FP, Div(high, low), npts - 1, Div(high, low))
       ELSE RoundDiv(high - low, npts - 1)

\* lines 55-71: entry.  yin is the caller's *y2; the other outputs are not
\* read before they are written and start at 0.
GlobEnter(low, high, npts, log_space, critlim, yin) ==
    [pc |-> "scan", low |-> low, high |-> high, npts |-> Abs(npts),
     log_space |-> log_space, critlim |-> critlim,
     know_first_point |-> IF npts < 0 THEN 1 ELSE 0,
     rate |-> GlobRate(low, high, Abs(npts), log_space),
     x |-> low, previous |-> 0, ibest |-> -1, turned_up |-> 0, i |-> 0,
     x1 |-> 0, y1 |-> 0, x2 |-> 0, y2 |-> yin, x3 |-> 0, y3 |-> 0,
     ext |-> 0]

\* (variant of GlobCallsCriter: f(low) is evaluated even when the caller supplied it)
GlobCallsCriterAlways(s) == TRUE

\* line 75: is the criterion called in this pass of the scan?
GlobCallsCriter(s) == s.i # 0 \/ s.know_first_point = 0

\* (variant of GlobIsBest: the point is compared with its left neighbor)
GlobIsBestThanPrevious(s, y) == s.i = 0 \/ y < s.previous

\* line 80: does the point become the best so far?
GlobIsBest(s, y) == s.i = 0 \/ y < s.y2

\* line 88: the first point after the best that did not improve
GlobIsRightNeighbor(s, y) == s.i = s.ibest + 1

\* (variant of GlobEarlyExit: the threshold alone ends the scan)
GlobEarlyExitOnThreshold(s) == s.y2 <= s.critlim

\* line 95: the early exit
GlobEarlyExit(s) == s.y2 <= s.critlim /\ s.ibest > 0 /\ s.turned_up = 1

\* (variant of GlobNeighbors: the left extension follows every scan that
\* found a right neighbor, wherever the best point is)
GlobNeighborsLeftAnywhere(s) ==
    [s EXCEPT !.x1 = IF s.log_space = 1 THEN Div(s.x2, s.rate) ELSE s.x2 - s.rate,
              !.x3 = IF s.log_space = 1 THEN Mul(s.x2, s.rate) ELSE s.x2 + s.rate,
              !.pc = IF s.turned_up = 0 THEN "right" ELSE "left"]

\* (variant of GlobNeighbors: a best point at the first grid point is returned
\* with no left extension)
GlobNeighborsNoLeft(s) ==
    [s EXCEPT !.x1 = IF s.log_space = 1 THEN Div(s.x2, s.rate) ELSE s.x2 - s.rate,
              !.x3 = IF s.log_space = 1 THEN Mul(s.x2, s.rate) ELSE s.x2 + s.rate,
              !.pc = IF s.turned_up = 0 THEN "right" ELSE "done"]

\* lines 110-117 and the choice of lines 126/149 of what follows the scan
GlobNeighbors(s) ==
    [s EXCEPT !.x1 = IF s.log_space = 1 THEN Div(s.x2, s.rate) ELSE s.x2 - s.rate,
              !.x3 = IF s.log_space = 1 THEN Mul(s.x2, s.rate) ELSE s.x2 + s.rate,
              !.pc = IF s.turned_up = 0 THEN "right"
                     ELSE IF s.ibest = 0 THEN "left" ELSE "done"]

\* lines 80-102: one pass of the scan loop with y the value of lines 75-78
GlobScanBody(s, y) ==
    LET s1 == IF GlobIsBest(s, y)
                 THEN [s EXCEPT !.ibest = s.i, !.x2 = s.x, !.y2 = y,
                                !.y1 = s.previous, !.turned_up = 0]
                 ELSE IF GlobIsRightNeighbor(s, y)
                         THEN [s EXCEPT !.y3 = y, !.turned_up = 1]
                         ELSE s
        s2 == [s1 EXCEPT !.previous = y]
    IN  IF GlobEarlyExit(s2)
           THEN GlobNeighbors(s2)
           ELSE LET s3 == [s2 EXCEPT !.x = GlobAdvance(s2), !.i = s.i + 1]
                IN  IF s3.i < s3.npts THEN s3 ELSE GlobNeighbors(s3)

\* (variants of GlobFlat: two equal values end the extension; nothing does)
GlobFlatPair(s) == s.y1 = s.y2

GlobFlatNever(s) == FALSE

\* lines 133 and 156: three equal values
GlobFlat(s) == s.y1 = s.y2 /\ s.y2 = s.y3

\* (variant of GlobRightBody: the step stays what it was)
GlobRightBodySameStep(s, y) ==
    LET s1 == [s EXCEPT !.y3 = y, !.ext = s.ext + 1]
    IN  IF s1.y3 > s1.y2 \/ GlobFlat(s1)
           THEN [s1 EXCEPT !.pc = "done"]
           ELSE [s1 EXCEPT !.x1 = s1.x2, !.y1 = s1.y2,
                           !.x2 = s1.x3, !.y2 = s1.y3,
                           !.x3 = IF s.log_space = 1 THEN Mul(s1.x3, s1.rate)
                                                     ELSE s1.x3 + s1.rate]

\* lines 129-146: one pass of the right extension, y the value of criter(*x3)
GlobRightBody(s, y) ==
    LET s1 == [s EXCEPT !.y3 = y, !.ext = s.ext + 1]
    IN  IF s1.y3 > s1.y2 \/ GlobFlat(s1)
           THEN [s1 EXCEPT !.pc = "done"]
           ELSE LET r == 2 * s1.rate
                IN  [s1 EXCEPT !.x1 = s1.x2, !.y1 = s1.y2,
                               !.x2 = s1.x3, !.y2 = s1.y3,
                               !.rate = r,
                               !.x3 = IF s.log_space = 1 THEN Mul(s1.x3, r)
                                                         ELSE s1.x3 + r]

\* lines 152-169: one pass of the left extension, y the value of criter(*x1)
GlobLeftBody(s, y) ==
    LET s1 == [s EXCEPT !.y1 = y, !.ext = s.ext + 1]
    IN  IF s1.y1 > s1.y2 \/ GlobFlat(s1)
           THEN [s1 EXCEPT !.pc = "done"]
           ELSE LET r == 2 * s1.rate
                IN  [s1 EXCEPT !.x3 = s1.x2, !.y3 = s1.y2,
                               !.x2 = s1.x1, !.y2 = s1.y1,
                               !.rate = r,
                               !.x1 = IF s.log_space = 1 THEN Div(s1.x1, r)
                                                         ELSE s1.x1 - r]

\* the abscissa the call evaluates next
GlobEvalAt(s) ==
    IF s.pc = "scan" THEN s.x ELSE IF s.pc = "right" THEN s.x3 ELSE s.x1

----------------------------------------------------------------------------
(* The criterion as an unknown pure function *)

\* y is a value criter may return at abscissa x
CriterReturns(x, y) == IF x \in DOMAIN memo THEN y = memo[x] ELSE y \in CritValues

\* the record of one evaluation
Evaluate(x, y, phase) ==
    /\ CriterReturns(x, y)
    /\ memo' = (IF x \in DOMAIN memo THEN memo ELSE memo @@ (x :> y))
    /\ evs' = Append(evs, [x |-> x, y |-> y, phase |-> phase])

----------------------------------------------------------------------------
(* Specification of glob_min: a call with npts = k, then a call with        *)
(* npts = -k and *y2 = f(low) on the same criterion                         *)

NoCall == [pc |-> "none"]

\* lines 354-356 before the first call of powell: the statics are null
NoStatics == [x |-> "null", base |-> "null", direc |-> "null", n |-> 0, criter |-> "null"]

GlobInputs ==
    {GlobEnter(low, low + w, k, ls, cl, 0) :
        low \in Lows, w \in Widths, k \in GridSizes, ls \in {0, 1}, cl \in CritLims}

InitGlob ==
    /\ g \in {s \in GlobInputs : s.log_space = 1 => s.rate > FP}
    /\ first = NoCall
    /\ b = NoCall
    /\ p = NoCall
    /\ loc = NoStatics
    /\ memo = << >>
    /\ evs = << >>

\* lines 73-102 (and 104-117 when the scan ends): one pass of the scan
GlobScan ==
    /\ g.pc = "scan"
    /\ IF GlobCallsCriter(g)
          THEN \E y \in CritValues :
                  /\ Evaluate(g.x, y, "scan")
                  /\ g' = GlobScanBody(g, y)
          ELSE /\ g' = GlobScanBody(g, g.y2)
               /\ UNCHANGED <<memo, evs>>
    /\ UNCHANGED <<first, b, p, loc>>

\* lines 126-147: one pass of the right extension
GlobExtendRight ==
    /\ g.pc = "right"
    /\ g.ext < MaxExt
    /\ \E y \in CritValues :
          /\ Evaluate(g.x3, y, "right")
          /\ g' = GlobRightBody(g, y)
    /\ UNCHANGED <<first, b, p, loc>>

\* lines 149-170: one pass of the left extension
GlobExtendLeft ==
    /\ g.pc = "left"
    /\ g.ext < MaxExt
    /\ \E y \in CritValues :
          /\ Evaluate(g.x1, y, "left")
          /\ g' = GlobLeftBody(g, y)
    /\ UNCHANGED <<first, b, p, loc>>

\* line 172 of the first call, then the caller's second call with the sign
\* of npts flipped and f(low) in *y2
GlobCallAgain ==
    /\ g.pc = "done"
    /\ first = NoCall
    /\ first' = [g EXCEPT !.pc = "returned"] @@ [evs |-> evs]
    /\ g' = GlobEnter(g.low, g.high, -g.npts, g.log_space, g.critlim, memo[g.low])
    /\ evs' = << >>
    /\ UNCHANGED <<memo, b, p, loc>>

NextGlob == GlobScan \/ GlobExtendRight \/ GlobExtendLeft \/ GlobCallAgain

SpecGlob == InitGlob /\ [][NextGlob]_vars

----------------------------------------------------------------------------
(* brentmin: the locals of one call *)

Max(a, c) == IF a > c THEN a ELSE c

\* the element of a one-element set.  The({F(v) : v \in {e}}) is F(e) with
\* e computed once.
The(S) == CHOOSE v \in S : TRUE

\* the constant .3819660 of lines 279 and 284
Golden == RoundDiv(381966 * FP, 1000000)

\* the constants 1.e-40 and 1.e40 of lines 264 and 267: below the smallest
\* positive number and above every abscissa
Tiny == 0

Huge == 1000 * FP

\* lines 211-222: entry.  xa, xb, xc are the in/out arguments; entry keeps
\* the values they had when the call began.
BrentEnter(itmax, critlim, eps, tol, xa, xb, xc, y) ==
    [pc |-> "loop", itmax |-> itmax, critlim |-> critlim, eps |-> eps,
     tol |-> tol, xa |-> xa, xb |-> xb, xc |-> xc, y |-> y,
     entry |-> <<xa, xb, xc>>,
     x0 |-> xb, x1 |-> xb, x2 |-> xb, xleft |-> xa, xright |-> xc,
     y0 |-> y, y1 |-> y, y2 |-> y, movement |-> 0, trial |-> 0, iter |-> 0]

\* (variant of BrentCritlimReached: the comparison of the header comment)
BrentCritlimReachedOrEqual(s) == s.y0 <= s.critlim

\* line 230
BrentCritlimReached(s) == s.y0 < s.critlim

\* lines 239-243
BrentSmallStep(s) == Mul(Max(Abs(s.x0), FP), s.tol)

BrentSmallDist(s) == 2 * BrentSmallStep(s)

\* line 245
BrentXmid(s) == RoundDiv(s.xleft + s.xright, 2)

\* (variant of BrentBracketSmall: the width of the bracket is left out)
BrentNearMiddle(s) == Abs(s.x0 - BrentXmid(s)) <= BrentSmallDist(s)

\* line 247
BrentBracketSmall(s) ==
    Abs(s.x0 - BrentXmid(s)) <= BrentSmallDist(s) - RoundDiv(s.xright - s.xleft, 2)

\* (variant of BrentFunctionFlat: the test is made from the third pass on)
BrentFunctionFlatEarly(s) ==
    /\ s.iter >= 3
    /\ IF s.y0 + FP = 0 THEN s.y2 - s.y0 < 0
                        ELSE Div(s.y2 - s.y0, s.y0 + FP) < s.eps

\* line 254: a quotient by zero is an infinity of the sign of the numerator,
\* or a NaN, which compares false
BrentFunctionFlat(s) ==
    /\ s.iter >= 4
    /\ IF s.y0 + FP = 0 THEN s.y2 - s.y0 < 0
                        ELSE Div(s.y2 - s.y0, s.y0 + FP) < s.eps

\* lines 228-255: does the loop end at the head of this pass?
BrentStops(s) ==
    \/ s.iter >= s.itmax
    \/ BrentCritlimReached(s)
    \/ BrentBracketSmall(s)
    \/ BrentFunctionFlat(s)

\* (variant of BrentGolden: the step goes into the smaller half)
BrentGoldenSmallerHalf(s) ==
    LET m == IF BrentXmid(s) > s.x0 THEN s.xleft - s.x0 ELSE s.xright - s.x0
    IN  [s EXCEPT !.movement = m, !.trial = Mul(Golden, m)]

\* lines 278-279 and 283-284: the golden-section step
BrentGolden(s) ==
    LET m == IF BrentXmid(s) > s.x0 THEN s.xright - s.x0 ELSE s.xleft - s.x0
    IN  [s EXCEPT !.movement = m, !.trial = Mul(Golden, m)]

\* lines 258-267: the parabolic estimate
BrentParabola(s) ==
    LET temp1 == Mul(s.x0 - s.x2, s.y0 - s.y1)
        temp2 == Mul(s.x0 - s.x1, s.y0 - s.y2)
        numer == Mul(s.x0 - s.x1, temp2) - Mul(s.x0 - s.x2, temp1)
        denom == 2 * (temp1 - temp2)
    IN  IF Abs(denom) > Tiny THEN Div(numer, denom) ELSE Huge

\* lines 257-285: the step of this pass
BrentChooseStep(s) ==
    IF Abs(s.movement) > BrentSmallStep(s)
       THEN LET testdist == s.movement
                trial == BrentParabola(s)
                s1 == [s EXCEPT !.movement = s.trial, !.trial = trial]
                temp1 == trial + s.x0
            IN  IF /\ 2 * Abs(trial) < Abs(testdist)
                   /\ temp1 > s.xleft
                   /\ temp1 < s.xright
                   THEN IF \/ temp1 - s.xleft < BrentSmallDist(s)
                           \/ s.xright - temp1 < BrentSmallDist(s)
                           THEN [s1 EXCEPT !.trial = IF s.x0 < BrentXmid(s)
                                                        THEN BrentSmallStep(s)
                                                        ELSE -BrentSmallStep(s)]
                           ELSE s1
                   ELSE BrentGolden(s1)
       ELSE BrentGolden(s)

\* lines 287-290: the abscissa evaluated, s after BrentChooseStep
BrentThisX(s) ==
    IF Abs(s.trial) >= BrentSmallStep(s)
       THEN s.x0 + s.trial
       ELSE IF s.trial > 0 THEN s.x0 + BrentSmallStep(s)
                           ELSE s.x0 - BrentSmallStep(s)

\* (variant of BrentImproves: the new point is ranked against the second best)
BrentImprovesOnSecond(s, this_y) == this_y <= s.y1

\* line 299
BrentImproves(s, this_y) == this_y <= s.y0

\* (variant of BrentRank: after an improvement the bracket end on the side
\* of the new point is the one moved to the old best point)
BrentRankWrongEnd(s, this_x, this_y) ==
    IF BrentImproves(s, this_y)
       THEN [s EXCEPT !.xright = IF this_x < s.x0 THEN s.xright ELSE s.x0,
                      !.xleft = IF this_x < s.x0 THEN s.x0 ELSE s.xleft,
                      !.x2 = s.x1, !.x1 = s.x0, !.x0 = this_x,
                      !.y2 = s.y1, !.y1 = s.y0, !.y0 = this_y]
       ELSE LET s1 == [s EXCEPT !.xright = IF this_x >= s.x0 THEN this_x ELSE s.xright,
                                !.xleft = IF this_x >= s.x0 THEN s.xleft ELSE this_x]
            IN  IF this_y <= s.y1 \/ s.x1 = s.x0
                   THEN [s1 EXCEPT !.x2 = s.x1, !.x1 = this_x,
                                   !.y2 = s.y1, !.y1 = this_y]
                   ELSE IF this_y <= s.y2 \/ s.x2 = s.x0 \/ s.x2 = s.x1
                           THEN [s1 EXCEPT !.x2 = this_x, !.y2 = this_y]
                           ELSE s1

\* lines 299-328: the new point takes its place among the three best
BrentRank(s, this_x, this_y) ==
    IF BrentImproves(s, this_y)
       THEN [s EXCEPT !.xright = IF this_x < s.x0 THEN s.x0 ELSE s.xright,
                      !.xleft = IF this_x < s.x0 THEN s.xleft ELSE s.x0,
                      !.x2 = s.x1, !.x1 = s.x0, !.x0 = this_x,
                      !.y2 = s.y1, !.y1 = s.y0, !.y0 = this_y]
       ELSE LET s1 == [s EXCEPT !.xright = IF this_x >= s.x0 THEN this_x ELSE s.xright,
                                !.xleft = IF this_x >= s.x0 THEN s.xleft ELSE this_x]
            IN  IF this_y <= s.y1 \/ s.x1 = s.x0
                   THEN [s1 EXCEPT !.x2 = s.x1, !.x1 = this_x,
                                   !.y2 = s.y1, !.y1 = this_y]
                   ELSE IF this_y <= s.y2 \/ s.x2 = s.x0 \/ s.x2 = s.x1
                           THEN [s1 EXCEPT !.x2 = this_x, !.y2 = this_y]
                           ELSE s1

\* lines 257-329: one pass of the loop that did not stop at its head, with
\* this_y the value of criter(this_x)
BrentBody(s, this_y) ==
    LET s1 == BrentChooseStep(s)
        s2 == BrentRank(s1, BrentThisX(s1), this_y)
    IN  [s2 EXCEPT !.iter = s.iter + 1]

\* (variant of BrentReturn: the bracket of the caller is left as it was)
BrentReturnBestOnly(s) == [s EXCEPT !.pc = "done", !.xb = s.x0]

\* lines 331-335: the outputs
BrentReturn(s) ==
    [s EXCEPT !.pc = "done", !.xa = s.xleft, !.xb = s.x0, !.xc = s.xright]

----------------------------------------------------------------------------
(* Specification of brentmin: one call on an unknown criterion *)

Tols == {FP \div 100, FP \div 4}

Epss == {FP \div 100, 2 * FP}

BrentInputs ==
    {BrentEnter(MaxIter, cl, eps, tol, 0, xb, 5 * FP, y) :
        cl \in CritLims, eps \in Epss, tol \in Tols, xb \in {2 * FP, 4 * FP},
        y \in CritValues}

InitBrent ==
    /\ b \in BrentInputs
    /\ g = NoCall
    /\ first = NoCall
    /\ p = NoCall
    /\ loc = NoStatics
    /\ memo = << >>
    /\ evs = << >>

\* lines 228-329: a pass of the loop that evaluates the criterion
BrentIterate ==
    /\ b.pc = "loop"
    /\ ~BrentStops(b)
    /\ \E y \in CritValues :
          /\ Evaluate(BrentThisX(BrentChooseStep(b)), y, "brent")
          /\ b' = BrentBody(b, y)
    /\ UNCHANGED <<g, first, p, loc>>

\* the loop ends (lines 228, 230, 247, 254) and the call returns
BrentFinish ==
    /\ b.pc = "loop"
    /\ BrentStops(b)
    /\ b' = BrentReturn(b)
    /\ UNCHANGED <<g, first, memo, evs, p, loc>>

NextBrent == BrentIterate \/ BrentFinish

SpecBrent == InitBrent /\ [][NextBrent]_vars

\* iteration limit of the calls that are repeated
MaxIterAgain == 5

\* a call, then a second call on what the first returned
InitBrentTwice ==
    /\ b \in {BrentEnter(MaxIterAgain, cl, eps, tol, 0, 2 * FP, 5 * FP, y) :
                 cl \in {-2 * FP, 0}, eps \in Epss, tol \in Tols, y \in {0}}
    /\ g = NoCall
    /\ first = NoCall
    /\ p = NoCall
    /\ loc = NoStatics
    /\ memo = << >>
    /\ evs = << >>

\* line 335 of the first call, then the caller's second call with the
\* returned *xa, *xb, *xc and the returned value as y
BrentCallAgain ==
    /\ b.pc = "done"
    /\ first = NoCall
    /\ first' = [b EXCEPT !.pc = "returned"] @@ [evs |-> evs]
    /\ b' = BrentEnter(b.itmax, b.critlim, b.eps, b.tol, b.xa, b.xb, b.xc, b.y0)
    /\ evs' = << >>
    /\ UNCHANGED <<g, memo, p, loc>>

NextBrentTwice == BrentIterate \/ BrentFinish \/ BrentCallAgain

SpecBrentTwice == InitBrentTwice /\ [][NextBrentTwice]_vars

\* glob_min or brentmin, one call of either
InitUnivar == InitGlob \/ InitBrent

NextUnivar == NextGlob \/ NextBrent

SpecUnivar == InitUnivar /\ [][NextUnivar]_vars

----------------------------------------------------------------------------
(* powell *)

\* the literal 15 of lines 453 and 537: grid points of a line search
PowellGridPts == 15

\* the iteration limits 20 and 40 of lines 473-476 and 556-559
BrentItsModerate == 20

BrentItsHard == 40

\* the x tolerances 1.e-5 and 1.e-7 of lines 473-476: below the resolution of
\* the model, they are the smallest positive number
XTolModerate == Max(1, RoundDiv(FP, 100000))

XTolHard == Max(1, RoundDiv(FP, 10000000))

\* the 1.e60 of line 400
VeryLarge == 1000 * FP

\* the first mult of lines 452 and 536, and their limit 11.0
FirstMult == RoundDiv(FP, 10)

MultLimit == 11 * FP

\* (variant of FirstScale: the line searches start with no step at all)
NoScale == RoundDiv(0, 10)

\* the 0.2 of line 402
FirstScale == RoundDiv(2 * FP, 10)

RECURSIVE SumSeq(_)
SumSeq(v) == IF v = << >> THEN 0 ELSE Head(v) + SumSeq(Tail(v))

\* the criteria handed to powell
Criter(c, x) ==
    CASE c = "sumsq" -> SumSeq([i \in DOMAIN x |-> Mul(x[i], x[i])])
      [] c = "abs" -> SumSeq([i \in DOMAIN x |-> Abs(x[i])])
      [] c = "spike" -> IF \A i \in DOMAIN x : x[i] = 0 THEN 0 ELSE FP
      [] c = "moat" ->
            IF \A i \in DOMAIN x : Abs(x[i]) <= 3 * FP
               THEN FP
               ELSE SumSeq([i \in DOMAIN x |->
                              IF Abs(x[i]) <= 3 * FP THEN 0
                              ELSE Mul(2 * Abs(x[i]) - 7 * FP, 2 * Abs(x[i]) - 7 * FP)])
      [] c = "slope" ->
            Mul(x[1] - x[Len(x)], x[1] - x[Len(x)])
               + Mul(RoundDiv(FP, 4), Mul(x[1] - FP, x[1] - FP))
      [] c = "ravine" ->
            Mul(x[1] - x[Len(x)], x[1] - x[Len(x)])
               + Mul(RoundDiv(FP, 10),
                     Mul(x[1] + x[Len(x)] - 2 * FP, x[1] + x[Len(x)] - 2 * FP))

\* base + t * direc, lines 462, 481 and 590
PointAt(base, t, direc) == [i \in DOMAIN base |-> base[i] + Mul(t, direc[i])]

\* univar_crit, lines 585-592, on the buffers and the criterion the statics
\* point to (c.base, c.direc and c.criter)
UnivarCrit(c, t) == Criter(c.criter, PointAt(c.base, t, c.direc))

\* one pass of glob_min (scan or extension) with univar_crit as its criterion
GlobPass(s, c) ==
    IF s.pc = "scan"
       THEN The({GlobScanBody(s, y) :
                    y \in {IF GlobCallsCriter(s) THEN UnivarCrit(c, s.x) ELSE s.y2}})
    ELSE IF s.pc = "right"
       THEN The({GlobRightBody(s, y) : y \in {UnivarCrit(c, s.x3)}})
       ELSE The({GlobLeftBody(s, y) : y \in {UnivarCrit(c, s.x1)}})

\* glob_min run to its return
RECURSIVE GlobRun(_, _)
GlobRun(s, c) ==
    IF s.pc = "done" THEN s
    ELSE The({GlobRun(s1, c) : s1 \in {GlobPass(s, c)}})

\* one pass of brentmin that did not stop, with univar_crit as its criterion
BrentPass(s, c) ==
    The({BrentBody(s, y) : y \in {UnivarCrit(c, BrentThisX(BrentChooseStep(s)))}})

\* brentmin run to its return
RECURSIVE BrentRun(_, _)
BrentRun(s, c) ==
    IF BrentStops(s) THEN BrentReturn(s)
    ELSE The({BrentRun(s1, c) : s1 \in {BrentPass(s, c)}})

\* (variant of PowellBounded: equal neighbors are accepted)
PowellBoundedOrEqual(r) == r.y2 <= r.y1 /\ r.y2 <= r.y3

\* lines 456 and 540: the minimum is bounded
PowellBounded(r) == r.y2 < r.y1 /\ r.y2 < r.y3

\* lines 452-458 and 536-542: glob_min on widening intervals until the
\* minimum is bounded; y2 is the in/out argument of glob_min
RECURSIVE PowellBracket(_, _, _, _, _)
PowellBracket(c, scale, critlim, mult, y2) ==
    The({IF PowellBounded(r) \/ 4 * mult >= MultLimit
            THEN r
            ELSE PowellBracket(c, scale, critlim, 4 * mult, r.y2) :
         r \in {GlobRun(GlobEnter(-Mul(mult, scale), Mul(mult, scale),
                                  PowellGridPts, 0, critlim, y2), c)}})

\* (variant of PowellGoodEnough: the comparison of the specification)
PowellGoodEnoughOrEqual(y, critlim) == y <= critlim

\* lines 410, 459 and 543
PowellGoodEnough(y, critlim) == y < critlim

\* lines 472-477 and 555-560
PowellRefine(s, c, r) ==
    IF s.convergence_counter # 0
       THEN BrentRun(BrentEnter(BrentItsHard, s.critlim, s.tol, XTolHard,
                                r.x1, r.x2, r.x3, r.y2), c)
       ELSE BrentRun(BrentEnter(BrentItsModerate, s.critlim, 10 * s.tol, XTolModerate,
                                r.x1, r.x2, r.x3, r.y2), c)

\* lines 478 and 561
PowellScale(s, t2) ==
    RoundDiv(Abs(t2), s.n) + Mul(FP - RoundDiv(FP, s.n), s.scale)

\* the statics as values: what univar_crit reads during a line search of s
\* along direc (local_base is base, which holds a copy of x)
Statics(s, direc) == [criter |-> s.criter, base |-> s.x, direc |-> direc]

\* lines 459-470 and 543-554: the search ends by critlim, r the bracket
PowellFinish(s, direc, r) ==
    [finish |-> TRUE, y2 |-> r.y2, t2 |-> r.x2, fval |-> s.fval,
     scale |-> s.scale,
     x |-> IF r.y2 < s.fbest THEN PointAt(s.x, r.x2, direc) ELSE s.x,
     fbest |-> IF r.y2 < s.fbest THEN r.y2 ELSE s.fbest]

\* lines 472-486 and 555-564: the search ends with brentmin's result m
PowellRefined(s, direc, r, m) ==
    [finish |-> FALSE, y2 |-> r.y2, t2 |-> m.xb, fval |-> m.y0,
     scale |-> PowellScale(s, m.xb),
     x |-> PointAt(s.x, m.xb, direc),
     fbest |-> m.y0]

\* lines 448-486 and 533-564: the line search from x along direc.  finish
\* says that the search ended by critlim.
PowellLineSearch(s, direc) ==
    The({IF PowellGoodEnough(r.y2, s.critlim)
            THEN PowellFinish(s, direc, r)
            ELSE The({PowellRefined(s, direc, r, m) :
                         m \in {PowellRefine(s, Statics(s, direc), r)}}) :
         r \in {PowellBracket(Statics(s, direc), s.scale, s.critlim,
                              FirstMult, s.fbest)}})

Identity(n) == [i \in 1..n |-> [j \in 1..n |-> IF j = i THEN FP ELSE 0]]

\* lines 381-403: entry.  The buffers base and p0 are the caller's and hold
\* what the caller left in them (zeros here).
PowellEnter(maxits, critlim, tol, criter, n, x, ystart) ==
    [pc |-> "head", maxits |-> maxits, critlim |-> critlim, tol |-> tol,
     criter |-> criter, n |-> n, x |-> x, ystart |-> ystart,
     base |-> [i \in 1..n |-> 0], p0 |-> [i \in 1..n |-> 0],
     direc |-> Identity(n),
     replaced |-> -1, prev_best |-> VeryLarge, fbest |-> ystart,
     scale |-> FirstScale, iter |-> 0, convergence_counter |-> 0,
     f0 |-> 0, delta |-> 0, idelta |-> 0, idir |-> 0, fval |-> 0, ftest |-> 0]

\* lines 381-384: the statics after entry
PowellStatics(n, criter) ==
    [x |-> "x", base |-> "base", direc |-> "null", n |-> n, criter |-> criter]

\* lines 417-420
PowellToler(s) ==
    IF Abs(s.prev_best) <= FP THEN s.tol ELSE Mul(s.tol, Abs(s.prev_best))

\* (variant of PowellCapReached: one iteration more is allowed)
PowellCapPassed(s) == s.iter > s.maxits /\ s.maxits > 0

\* line 407, with iter the value before the increment
PowellCapReached(s) == s.iter >= s.maxits /\ s.maxits > 0

\* (variant of PowellConverged: one check with little improvement is enough)
PowellConvergedAtOnce(cc) == cc >= 1

\* line 423, with cc the counter after its increment
PowellConverged(cc) == cc >= 2

\* lines 407-442: the head of the main loop
PowellHeadBody(s) ==
    LET s1 == [s EXCEPT !.iter = s.iter + 1]
    IN  IF PowellCapReached(s)
           THEN [s1 EXCEPT !.pc = "done"]
        ELSE IF PowellGoodEnough(s.fbest, s.critlim)
           THEN [s1 EXCEPT !.pc = "done"]
        ELSE LET little == s.prev_best - s.fbest <= PowellToler(s)
                 cc == IF little THEN s.convergence_counter + 1 ELSE 0
                 s2 == [s1 EXCEPT !.convergence_counter = cc]
             IN  IF little /\ PowellConverged(cc)
                    THEN [s2 EXCEPT !.pc = "done"]
                    ELSE [s2 EXCEPT !.pc = "dir", !.prev_best = s.fbest,
                                    !.p0 = s.x, !.f0 = s.fbest, !.delta = -FP,
                                    !.idelta = 0, !.idir = 0]

\* (variant of PowellSkips: passed over after any replacement)
PowellSkipsAfterAny(s) == s.n > 1 /\ s.idir = 0 /\ s.replaced >= 0

\* line 446: the first direction is passed over
PowellSkips(s) == s.n > 1 /\ s.idir = 0 /\ s.replaced = 0

\* the end of a pass of the loop of line 445
PowellNextDirection(s) ==
    IF s.idir + 1 < s.n THEN [s EXCEPT !.idir = s.idir + 1]
                        ELSE [s EXCEPT !.idir = s.idir + 1, !.pc = "probe"]

\* lines 448-487: the line search ls along direction idir is taken in
PowellAfterSearch(s, ls) ==
    LET s1 == [s EXCEPT !.base = s.x, !.x = ls.x, !.fbest = ls.fbest,
                        !.fval = ls.fval, !.scale = ls.scale]
    IN  IF ls.finish
           THEN [s1 EXCEPT !.pc = "done"]
           ELSE PowellNextDirection(
                   IF s.fbest - ls.fval > s.delta
                      THEN [s1 EXCEPT !.delta = s.fbest - ls.fval,
                                      !.idelta = s.idir]
                      ELSE s1)

\* lines 446-487: one pass of the loop over the directions
PowellDirectionBody(s) ==
    IF PowellSkips(s) THEN PowellNextDirection(s)
    ELSE The({PowellAfterSearch(s, ls) :
                 ls \in {PowellLineSearch(s, s.direc[s.idir + 1])}})

\* (variant of PowellReplaces: an improving step out is enough)
PowellReplacesOnImprovement(s, fval, ftest) == fval < s.f0

\* lines 521-524: the two tests for replacement, with fval the value at the
\* extrapolated point and ftest the best value after the line searches
PowellReplaces(s, fval, ftest) ==
    /\ fval < s.f0
    /\ LET test == s.f0 - ftest - s.delta
       IN  Mul(Mul(2 * (s.f0 - 2 * ftest + fval), test), test)
              < Mul(Mul(s.delta, s.f0 - fval), s.f0 - fval)

\* lines 497-525: the step along the average direction (avg, to the point
\* out of value fval) and the tests
PowellProbed(s, avg, out, fval) ==
    LET s1 == [s EXCEPT !.p0 = avg, !.base = out, !.fval = fval,
                        !.replaced = -1, !.ftest = s.fbest]
        s2 == IF fval < s.fbest THEN [s1 EXCEPT !.fbest = fval, !.x = out] ELSE s1
    IN  IF PowellReplaces(s, fval, s.fbest)
           THEN [s2 EXCEPT !.replaced = s.idelta, !.pc = "replace"]
           ELSE [s2 EXCEPT !.pc = "head"]

PowellProbeBody(s) ==
    The({PowellProbed(s, avg, out, fval) :
            <<avg, out, fval>> \in
               {<<d, e, Criter(s.criter, e)>> :
                   <<d, e>> \in {<<d1, [i \in 1..s.n |-> s.x[i] + d1[i]]>> :
                                    d1 \in {[i \in 1..s.n |-> s.x[i] - s.p0[i]]}}}})

\* the integer square root, for the sqrt of line 529
RECURSIVE SqrtBelow(_, _, _)
SqrtBelow(lo, hi, target) ==
    IF lo >= hi THEN lo
    ELSE LET mid == (lo + hi + 1) \div 2
         IN  IF mid * mid <= target THEN SqrtBelow(mid, hi, target)
                                    ELSE SqrtBelow(lo, mid - 1, target)

\* lines 526-529
PowellLength(v) ==
    LET sq == SumSeq([i \in DOMAIN v |-> v[i] * v[i]])
    IN  SqrtBelow(0, 40000, sq)

\* (variant of PowellReplaced: the first direction is dropped, the others
\* move up and the new direction becomes the last)
PowellReplacedByShift(s, unit, ls) ==
    LET s1 == [s EXCEPT !.p0 = unit, !.base = s.x, !.x = ls.x,
                        !.fbest = ls.fbest, !.fval = ls.fval, !.scale = ls.scale]
    IN  IF ls.finish
           THEN [s1 EXCEPT !.pc = "done"]
           ELSE [s1 EXCEPT !.direc = [i \in 1..s.n |-> IF i < s.n THEN s.direc[i + 1]
                                                                ELSE unit],
                           !.pc = "head"]

\* lines 533-568: the line search ls along the new direction unit is taken
\* in and the direction replaces row idelta
PowellReplaced(s, unit, ls) ==
    LET s1 == [s EXCEPT !.p0 = unit, !.base = s.x, !.x = ls.x,
                        !.fbest = ls.fbest, !.fval = ls.fval, !.scale = ls.scale]
    IN  IF ls.finish
           THEN [s1 EXCEPT !.pc = "done"]
           ELSE [s1 EXCEPT !.direc[s.idelta + 1] = unit, !.pc = "head"]

\* lines 526-531: the average direction scaled to unit length
PowellUnit(s) ==
    The({[i \in 1..s.n |-> Div(s.p0[i], len)] : len \in {PowellLength(s.p0)}})

\* lines 526-568: the line search along the average direction and the
\* replacement of row idelta
PowellReplaceBody(s) ==
    The({PowellReplaced(s, ul[1], ul[2]) :
            ul \in {<<unit, PowellLineSearch(s, unit)>> : unit \in {PowellUnit(s)}}})

----------------------------------------------------------------------------
(* Specification of powell: one call, ystart = criter(x) *)

\* iteration limit given to powell
MaxIts == 3

PowellStarts(n) == [1..n -> {0, FP}]

\* an iteration limit no run comes near (and maxits = 0 is no limit)
AmpleIts == 10

PowellInputs ==
    {PowellEnter(maxits, cl, tol, c, n, x, Criter(c, x)) :
        maxits \in {0, MaxIts, AmpleIts},
        cl \in {-VeryLarge, 0, RoundDiv(FP, 2)}, tol \in {RoundDiv(FP, 100)},
        c \in {"sumsq", "abs", "spike", "moat", "ravine", "slope"},
        n \in {1, 2}, x \in PowellStarts(1) \cup PowellStarts(2)}

InitPowell ==
    /\ p \in {s \in PowellInputs : Len(s.x) = s.n}
    /\ loc = PowellStatics(p.n, p.criter)
    /\ g = NoCall
    /\ b = NoCall
    /\ first = NoCall
    /\ memo = << >>
    /\ evs = << >>

\* lines 407-442
PowellHead ==
    /\ p.pc = "head"
    /\ p' = PowellHeadBody(p)
    /\ UNCHANGED <<g, first, b, memo, evs, loc>>

\* lines 445-487, one direction
PowellDirection ==
    /\ p.pc = "dir"
    /\ p' = PowellDirectionBody(p)
    /\ loc' = IF PowellSkips(p) THEN loc
                                ELSE [loc EXCEPT !.direc = <<"direc", p.idir>>]
    /\ UNCHANGED <<g, first, b, memo, evs>>

\* lines 497-525
PowellProbe ==
    /\ p.pc = "probe"
    /\ p' = PowellProbeBody(p)
    /\ UNCHANGED <<g, first, b, memo, evs, loc>>

\* lines 526-568
PowellReplace ==
    /\ p.pc = "replace"
    /\ p' = PowellReplaceBody(p)
    /\ loc' = [loc EXCEPT !.direc = <<"p0">>]
    /\ UNCHANGED <<g, first, b, memo, evs>>

NextPowell == PowellHead \/ PowellDirection \/ PowellProbe \/ PowellReplace

SpecPowell == InitPowell /\ [][NextPowell]_vars

----------------------------------------------------------------------------
(* Specification of two calls of powell that overlap in time: two threads,  *)
(* or a criterion that itself calls powell.  Each call has buffers of its   *)
(* own; the statics of lines 354-356 are the only state they share.  A      *)
(* pointer is <<c, name>> or <<c, "direc", row>>: a buffer of call c.  The  *)
(* steps interleaved are the entry (lines 381-393), the start of a line     *)
(* search (lines 448-451), each evaluation of univar_crit by glob_min or    *)
(* brentmin (lines 585-592) and the end of a line search (lines 478-487).   *)

Callers == {1, 2}

\* evaluations of univar_crit in one line search
ReentryMaxEvals == 2

\* the abscissas t handed to univar_crit
TrialSteps == {-FP, FP}

\* the arguments and buffers of call c before it starts
ReentryCall(c, n) ==
    [pc |-> "idle", n |-> n, criter |-> IF c = 1 THEN "sumsq" ELSE "abs",
     x |-> [i \in 1..n |-> c * FP], base |-> [i \in 1..n |-> 0],
     p0 |-> [i \in 1..n |-> 0], direc |-> [i \in 1..n |-> [j \in 1..n |-> 0]],
     idir |-> 0, evals |-> 0, t2 |-> 0]

\* the contents of the buffer a pointer refers to
Buffer(ref) ==
    IF ref[2] = "x" THEN p[ref[1]].x
    ELSE IF ref[2] = "base" THEN p[ref[1]].base
    ELSE IF ref[2] = "p0" THEN p[ref[1]].p0
    ELSE p[ref[1]].direc[ref[3] + 1]

\* (variant of ReentryView: every call has statics of its own)
ReentryViewPrivate(c) ==
    [x |-> <<c, "x">>, base |-> <<c, "base">>, direc |-> <<c, "direc", p[c].idir>>,
     n |-> p[c].n, criter |-> p[c].criter]

\* lines 589-591: what univar_crit reads when a line search of call c calls
\* it: the file-scope statics
ReentryView(c) == loc

InitReentry ==
    /\ p \in {[c \in Callers |-> ReentryCall(c, n)] : n \in {1, 2}}
    /\ loc = NoStatics
    /\ g = NoCall
    /\ b = NoCall
    /\ first = NoCall
    /\ memo = << >>
    /\ evs = << >>

\* lines 381-393: entry of call c
ReentryEnter(c) ==
    /\ p[c].pc = "idle"
    /\ p' = [p EXCEPT ![c].pc = "search", ![c].direc = Identity(p[c].n)]
    /\ loc' = [loc EXCEPT !.x = <<c, "x">>, !.base = <<c, "base">>,
                          !.n = p[c].n, !.criter = p[c].criter]
    /\ UNCHANGED <<g, first, b, memo, evs>>

\* lines 448-451: call c starts the line search along its direction idir
ReentrySetDirection(c) ==
    /\ p[c].pc = "search"
    /\ p' = [p EXCEPT ![c].pc = "eval", ![c].base = p[c].x, ![c].evals = 0]
    /\ loc' = [loc EXCEPT !.direc = <<c, "direc", p[c].idir>>]
    /\ UNCHANGED <<g, first, b, memo, evs>>

\* lines 585-592: glob_min or brentmin of call c calls univar_crit(t)
ReentryEvaluate(c) ==
    /\ p[c].pc = "eval"
    /\ p[c].evals < ReentryMaxEvals
    /\ \E t \in TrialSteps :
          LET v == ReentryView(c)
              point == PointAt(Buffer(v.base), t, Buffer(v.direc))
              p1 == [p EXCEPT ![c].evals = p[c].evals + 1, ![c].t2 = t]
          IN  /\ p' = [p1 EXCEPT ![v.x[1]].x = point]
              /\ evs' = <<[by |-> c, t |-> t, statics |-> v, point |-> point,
                           y |-> Criter(v.criter, point)]>>
    /\ UNCHANGED <<g, first, b, memo, loc>>

\* lines 478-487: the line search of call c ends; x is set from base and
\* the direction local_direc points to
ReentryEndSearch(c) ==
    /\ p[c].pc = "eval"
    /\ p[c].evals >= 1
    /\ p' = [p EXCEPT ![c].x = PointAt(p[c].base, p[c].t2, Buffer(loc.direc)),
                      ![c].idir = p[c].idir + 1,
                      ![c].pc = IF p[c].idir + 1 < p[c].n THEN "search" ELSE "done"]
    /\ UNCHANGED <<g, first, b, memo, evs, loc>>

NextReentry ==
    \E c \in Callers :
       \/ ReentryEnter(c)
       \/ ReentrySetDirection(c)
       \/ ReentryEvaluate(c)
       \/ ReentryEndSearch(c)

SpecReentry == InitReentry /\ [][NextReentry]_vars

----------------------------------------------------------------------------
(* Specification of glob_min on f(x) = x*x over [10, 20], linear spacing *)

\* largest number of grid points of a call on the parabola
MaxSquarePts == 9

\* the parabola as a criterion of one variable: univar_crit on the line
\* through the origin along the axis
SquareCriter == [criter |-> "sumsq", base |-> <<0>>, direc |-> <<FP>>]

\* thresholds below every value of the parabola
SquareCritLims == {-VeryLarge, -FP, -1}

InitGlobSquare ==
    /\ g \in {GlobEnter(10 * FP, 20 * FP, k, 0, cl, 0) :
                 k \in 2..MaxSquarePts, cl \in SquareCritLims}
    /\ first = NoCall
    /\ b = NoCall
    /\ p = NoCall
    /\ loc = NoStatics
    /\ memo = << >>
    /\ evs = << >>

\* lines 73-170: one pass of the scan or of an extension
GlobSquarePass ==
    /\ g.pc \in {"scan", "right", "left"}
    /\ g' = GlobPass(g, SquareCriter)
    /\ evs' = IF g.pc = "scan" /\ ~GlobCallsCriter(g)
                 THEN evs
                 ELSE Append(evs, [x |-> GlobEvalAt(g),
                                   y |-> UnivarCrit(SquareCriter, GlobEvalAt(g)),
                                   phase |-> g.pc])
    /\ UNCHANGED <<first, b, memo, p, loc>>

SpecGlobSquare == InitGlobSquare /\ [][GlobSquarePass]_vars

----------------------------------------------------------------------------
(* Specification of glob_min on known criteria: -x and x, which decrease
   without end to the right and to the left, and |x - 10.2| and |x - 0.5|,
   whose minimum is inside some of the grids, right of others and left of
   others.  The sums of lines 137-145 and 160-168 are sums of doubles:
   beyond the largest double they are an infinity. *)

\* the infinity of the doubles, above every other number of the model
Infinite == 2000 * FP

\* the double nearest to v
Saturated(v) ==
    IF v > Infinite THEN Infinite ELSE IF v < -Infinite THEN -Infinite ELSE v

GlobOverflowed(s) ==
    [s EXCEPT !.rate = Saturated(s.rate), !.x1 = Saturated(s.x1),
              !.x3 = Saturated(s.x3)]

\* the criteria -x ("down"), x ("up"), |x - 10.2| and |x - 0.5|
DescentValue(c, x) ==
    CASE c = "down" -> -x
      [] c = "up" -> x
      [] c = "high" -> Abs(x - RoundDiv(102 * FP, 10))
      [] c = "low" -> Abs(x - RoundDiv(FP, 2))

InitGlobDescent ==
    /\ g \in {GlobEnter(low, low + w, k, 0, -Infinite, 0) @@ [criter |-> c] :
                 low \in Lows, w \in Widths, k \in GridSizes,
                 c \in {"down", "up", "high", "low"}}
    /\ first = NoCall
    /\ b = NoCall
    /\ p = NoCall
    /\ loc = NoStatics
    /\ memo = << >>
    /\ evs = << >>

\* lines 73-170: one pass of the scan or of an extension
GlobDescentPass ==
    /\ g.pc \in {"scan", "right", "left"}
    /\ \E y \in {DescentValue(g.criter, GlobEvalAt(g))} :
          /\ g' = GlobOverflowed(IF g.pc = "scan" THEN GlobScanBody(g, y)
                                 ELSE IF g.pc = "right" THEN GlobRightBody(g, y)
                                 ELSE GlobLeftBody(g, y))
          /\ evs' = Append(evs, [x |-> GlobEvalAt(g), y |-> y, phase |-> g.pc])
    /\ UNCHANGED <<first, b, memo, p, loc>>

SpecGlobDescent == InitGlobDescent /\ [][GlobDescentPass]_vars

----------------------------------------------------------------------------
(* Specification of brentmin on f(x) = (x-3)^2 with the bracket [0, 5] *)

\* the parabola (t-3)^2 as a criterion of one variable
ShiftedSquare == [criter |-> "sumsq", base |-> <<-3 * FP>>, direc |-> <<FP>>]

\* interior starting points xb
BrentStartPoints ==
    {RoundDiv(FP, 2), FP, 2 * FP, RoundDiv(29 * FP, 10), 3 * FP,
     RoundDiv(7 * FP, 2), 4 * FP, RoundDiv(49 * FP, 10)}

\* the x tolerances and the function tolerances tried
SquareTols == {RoundDiv(FP, 100), RoundDiv(FP, 10), RoundDiv(FP, 4)}

SquareEpss == {1, RoundDiv(FP, 100), 2 * FP}

InitBrentSquare ==
    /\ b \in {BrentEnter(itmax, -VeryLarge, eps, tol, 0, xb, 5 * FP,
                         UnivarCrit(ShiftedSquare, xb)) :
                 itmax \in {BrentItsModerate, BrentItsHard}, eps \in SquareEpss,
                 tol \in SquareTols, xb \in BrentStartPoints}
    /\ g = NoCall
    /\ first = NoCall
    /\ p = NoCall
    /\ loc = NoStatics
    /\ memo = << >>
    /\ evs = << >>

\* lines 228-329: a pass of the loop that evaluates the criterion
BrentSquarePass ==
    /\ b.pc = "loop"
    /\ ~BrentStops(b)
    /\ b' = BrentPass(b, ShiftedSquare)
    /\ evs' = Append(evs, [x |-> BrentThisX(BrentChooseStep(b)),
                           y |-> UnivarCrit(ShiftedSquare, BrentThisX(BrentChooseStep(b))),
                           phase |-> "brent"])
    /\ UNCHANGED <<g, first, memo, p, loc>>

NextBrentSquare == BrentSquarePass \/ BrentFinish

SpecBrentSquare == InitBrentSquare /\ [][NextBrentSquare]_vars

----------------------------------------------------------------------------
(* Specification of brentmin on a constant criterion, with brackets of
   ordinary width and brackets wider than the 1.e40 of line 267 *)

\* univar_crit along a direction of length zero: the same value everywhere
FlatCriter == [criter |-> "spike", base |-> <<FP>>, direc |-> <<0>>]

\* the ends of the brackets: 3.0 and 2.5e40
BracketEnds == {3 * FP, RoundDiv(5 * Huge, 2)}

InitBrentWide ==
    /\ b \in {BrentEnter(MaxIter, -VeryLarge, eps, tol, -xa, xb, xc,
                         UnivarCrit(FlatCriter, xb)) :
                 eps \in Epss, tol \in Tols, xa \in BracketEnds,
                 xc \in BracketEnds, xb \in {-FP, 0, FP}}
    /\ g = NoCall
    /\ first = NoCall
    /\ p = NoCall
    /\ loc = NoStatics
    /\ memo = << >>
    /\ evs = << >>

\* lines 228-329: a pass of the loop that evaluates the criterion
BrentWidePass ==
    /\ b.pc = "loop"
    /\ ~BrentStops(b)
    /\ b' = BrentPass(b, FlatCriter)
    /\ evs' = Append(evs, [x |-> BrentThisX(BrentChooseStep(b)),
                           y |-> UnivarCrit(FlatCriter, BrentThisX(BrentChooseStep(b))),
                           phase |-> "brent"])
    /\ UNCHANGED <<g, first, memo, p, loc>>

NextBrentWide == BrentWidePass \/ BrentFinish

SpecBrentWide == InitBrentWide /\ [][NextBrentWide]_vars

----------------------------------------------------------------------------
(* Properties of glob_min *)

\* the values the criterion returned to the current call, and the caller's
\* f(low) when npts was negative
GlobSeen ==
    {evs[k].y : k \in DOMAIN evs}
       \cup (IF g.know_first_point = 1 THEN {memo[g.low]} ELSE {})

ScanEvals(es) == {k \in DOMAIN es : es[k].phase = "scan"}

Triple(s) == <<s.x1, s.y1, s.x2, s.y2, s.x3, s.y3>>

\* C1: whenever glob_min returns with linear spacing, the centre of the
\* returned triple is no larger than its neighbors: y2 <= y1 and y2 <= y3.
C1_CenterIsLeast ==
    (g.pc = "done" /\ g.log_space = 0) => (g.y2 <= g.y1 /\ g.y2 <= g.y3)

\* a return after the right extension shifted the triple at least once
C1_Witness ==
    /\ g.pc = "done" /\ g.log_space = 0
    /\ \E k \in DOMAIN evs : evs[k].phase = "right"
    /\ g.ext >= 2
    /\ g.y2 < g.y1 /\ g.y2 < g.y3

\* C2: on return y2 is the least value seen in the call (every value the
\* criterion returned in the scan and the extension, and the supplied f(low)
\* when npts is negative), and x2 is an abscissa where it was obtained.
C2_CenterIsMinimumSeen ==
    g.pc = "done" =>
       /\ g.y2 \in GlobSeen
       /\ \A v \in GlobSeen : g.y2 <= v
       /\ \/ \E k \in DOMAIN evs : evs[k].x = g.x2 /\ evs[k].y = g.y2
          \/ g.know_first_point = 1 /\ g.x2 = g.low /\ g.y2 = memo[g.low]

\* a return whose best value was found by the left extension, below a grid
\* of three different values
C2_Witness ==
    /\ g.pc = "done"
    /\ \E k \in DOMAIN evs : evs[k].phase = "left" /\ evs[k].x = g.x2
    /\ Cardinality(GlobSeen) = 3

\* C8: a pass of the scan other than the last leaves the scan exactly when
\* the best value is <= critlim, the best point is not the first grid point
\* and the point just evaluated is the one right after the best and did not
\* improve on it; the call then returns with no extension.
C8_EarlyExitNeedsBoundedBest ==
    [][ (g.pc = "scan" /\ g.i + 1 < g.npts) =>
           /\ (g'.pc # "scan") <=>
                 /\ g'.y2 <= g.critlim
                 /\ g'.ibest > 0
                 /\ g.i = g'.ibest + 1
                 /\ evs'[Len(evs')].y >= g'.y2
           /\ (g'.pc # "scan") => (g'.pc = "done" /\ g'.ext = 0 /\ g'.i = g.i)
      ]_vars

\* an early exit, and a first grid point at the threshold that does not end
\* the scan of the same call
C8_Witness ==
    /\ g.pc = "done" /\ g.i + 1 < g.npts
    /\ g.know_first_point = 0
    /\ evs[1].y <= g.critlim

\* C9: the call with npts = -k and *y2 = f(low) returns the triple of the
\* call with npts = k, with one scan evaluation fewer and none at low.
C9_KnownFirstPointSameTriple ==
    (g.pc = "done" /\ first # NoCall) =>
       /\ g.know_first_point = 1 /\ first.know_first_point = 0
       /\ Triple(g) = Triple(first)
       /\ Cardinality(ScanEvals(evs)) = Cardinality(ScanEvals(first.evs)) - 1
       /\ \A k \in ScanEvals(evs) : evs[k].x # g.low
       /\ Len(evs) = Len(first.evs) - 1

\* both calls returned after an extension
C9_Witness ==
    /\ g.pc = "done" /\ first # NoCall
    /\ g.ext > 0
    /\ g.y2 < memo[g.low]

----------------------------------------------------------------------------
(* Properties of brentmin *)

\* the input y and the values the criterion returned to the call
BrentSeen == {b.y} \cup {evs[k].y : k \in DOMAIN evs}

\* C3: brentmin returns the least of the input y and the values evaluated
\* in the call, never more than the input y, and *xb is an abscissa where
\* that value was obtained (the input xb if no evaluation was as good).
C3_ReturnsBestFound ==
    b.pc = "done" =>
       /\ b.y0 \in BrentSeen
       /\ \A v \in BrentSeen : b.y0 <= v
       /\ b.y0 <= b.y
       /\ IF \E k \in DOMAIN evs : evs[k].y <= b.y
             THEN \E k \in DOMAIN evs : evs[k].x = b.xb /\ evs[k].y = b.y0
             ELSE b.xb = b.entry[2] /\ b.y0 = b.y

\* a return after an improvement followed by two evaluations that did not
\* improve
C3_Witness ==
    /\ b.pc = "done"
    /\ Len(evs) >= 3
    /\ b.y0 < b.y
    /\ evs[Len(evs)].y > b.y0
    /\ evs[Len(evs) - 1].y > b.y0

\* C6: whenever the best value y0 is <= critlim at the head of a pass,
\* brentmin stops there: it returns without another criterion evaluation.
C6_StopsAtOrBelowCritlim ==
    [][ (b.pc = "loop" /\ b.y0 <= b.critlim) => (b'.pc = "done" /\ evs' = evs) ]_vars

\* C10: on a flat criterion glob_min ends its extension at the first
\* extension evaluation, after at most npts + 1 evaluations, and brentmin
\* evaluates the criterion at most itmax times.
C10_FlatCriterionTerminates ==
    /\ (g # NoCall /\ Cardinality(GlobSeen) <= 1) =>
          /\ Len(evs) <= g.npts + 1
          /\ g.ext <= 1
          /\ g.ext = 1 => g.pc = "done"
    /\ (b # NoCall /\ Cardinality(BrentSeen) = 1) =>
          /\ Len(evs) <= b.itmax
          /\ Len(evs) = b.itmax => BrentStops(b) \/ b.pc = "done"

\* glob_min returned from the flat check of the left extension
C10_Witness ==
    /\ g # NoCall /\ g.pc = "done" /\ g.know_first_point = 0
    /\ Cardinality(GlobSeen) = 1
    /\ g.ext = 1 /\ Len(evs) = g.npts + 1
    /\ evs[Len(evs)].phase = "left"

\* brentmin returned on a flat criterion after itmax evaluations
C10_WitnessBrent ==
    /\ b # NoCall /\ b.pc = "done"
    /\ Cardinality(BrentSeen) = 1
    /\ Len(evs) = b.itmax

\* C12 as stated: on (x-3)^2 with the bracket [0, 5] brentmin returns before
\* itmax evaluations with *xb within tol of 3 and the returned value within
\* eps of 0.
C12_ConvergesWithinTolAndEps ==
    b.pc = "done" =>
       /\ Len(evs) < b.itmax
       /\ Abs(b.xb - 3 * FP) <= b.tol
       /\ Abs(b.y0) <= b.eps

\* C12 as the code has it: on (x-3)^2 with the bracket [0, 5] and itmax 20
\* or 40, brentmin returns before itmax evaluations, by the bracket-width
\* test or by the function test; the returned bracket still holds 3, the
\* returned value is the criterion at *xb and no more than the input y; and
\* after the bracket-width test *xb is within 2 * tol * max(|xb|, 1) of 3.
C12_ConvergesWithinSmallDist ==
    b.pc = "done" =>
       /\ Len(evs) < b.itmax
       /\ BrentBracketSmall(b) \/ BrentFunctionFlat(b)
       /\ b.xa <= 3 * FP /\ 3 * FP <= b.xc
       /\ b.y0 = UnivarCrit(ShiftedSquare, b.xb) /\ b.y0 <= b.y
       /\ BrentBracketSmall(b) => Abs(b.xb - 3 * FP) <= BrentSmallDist(b)

\* a return by the bracket-width test after four evaluations or more, with
\* *xb farther than tol from 3
C12_Witness ==
    /\ b.pc = "done"
    /\ BrentBracketSmall(b) /\ ~BrentFunctionFlat(b)
    /\ Len(evs) >= 4
    /\ Abs(b.xb - 3 * FP) > b.tol

\* the test that ended a returned call s: the tests of lines 228, 230, 247
\* and 254 in the order of the code
BrentStoppedBy(s) ==
    IF s.iter >= s.itmax THEN "itmax"
    ELSE IF BrentCritlimReached(s) THEN "critlim"
    ELSE IF BrentBracketSmall(s) THEN "bracket"
    ELSE "flat"

\* what a returned call hands back
BrentOutputs(s) == <<s.xa, s.xb, s.xc, s.y0>>

\* C13 as stated: a second call on the outputs of a call that converged (by
\* critlim, by the bracket-width test or by the function test) returns *xb
\* within small_dist = 2 * tol * max(|xb|, 1) of the first call's, and after
\* a stop by critlim or by the bracket-width test it evaluates nothing and
\* returns the identical triple and value.
C13_SecondCallIsFixedPoint ==
    (b.pc = "done" /\ first # NoCall /\ BrentStoppedBy(first) # "itmax") =>
       /\ Abs(b.xb - first.xb) <= BrentSmallDist(first)
       /\ BrentStoppedBy(first) \in {"critlim", "bracket"} =>
             (Len(evs) = 0 /\ BrentOutputs(b) = BrentOutputs(first))

\* C13 as the code has it: after a first call that ended with y0 below
\* critlim or with the bracket-width test true, the second call evaluates
\* nothing and returns the identical triple and value; after any other first
\* call the second call evaluates again, and its value is no larger.
C13_SecondCallAfterBracketOrCritlim ==
    (b.pc = "done" /\ first # NoCall) =>
       /\ (BrentCritlimReached(first) \/ BrentBracketSmall(first)) =>
             (Len(evs) = 0 /\ BrentOutputs(b) = BrentOutputs(first))
       /\ ~(BrentCritlimReached(first) \/ BrentBracketSmall(first)) => Len(evs) > 0
       /\ b.y0 <= first.y0

\* a second call that returned at once after a first call that evaluated and
\* stopped by the bracket-width test
C13_Witness ==
    /\ b.pc = "done" /\ first # NoCall
    /\ BrentStoppedBy(first) = "bracket"
    /\ Len(first.evs) >= 2
    /\ Len(evs) = 0
    /\ BrentOutputs(b) = BrentOutputs(first)

----------------------------------------------------------------------------
(* Properties of powell *)

\* C4: the tracked best value never increases between successive outer
\* iterations: at the head of an iteration after the first, fbest is <= f0,
\* the value it had at the head of the iteration before.
C4_BestNeverIncreases ==
    (p.pc = "head" /\ p.iter > 0) => p.fbest <= p.f0

\* C5: on every return the returned fbest is the criterion at the final x
\* and is <= ystart.
C5_ReturnsBestAtX ==
    p.pc = "done" => (p.fbest = Criter(p.criter, p.x) /\ p.fbest <= p.ystart)

\* C7: powell stops at the head of an iteration whenever fbest <= critlim,
\* and ends a line search at once when the best value of the bracketing scan
\* is <= critlim.
C7_StopsAtOrBelowCritlim ==
    [][ /\ (p.pc = "head" /\ p.fbest <= p.critlim) => p'.pc = "done"
        /\ (p.pc = "dir" /\ ~PowellSkips(p)
              /\ PowellLineSearch(p, p.direc[p.idir + 1]).y2 <= p.critlim)
              => p'.pc = "done"
        /\ (p.pc = "replace"
              /\ PowellLineSearch(p, PowellUnit(p)).y2 <= p.critlim)
              => p'.pc = "done"
      ]_vars

\* a call on the sum of squares from a point other than the origin, with
\* critlim out of reach and an ample iteration limit
PowellOnQuadratic ==
    /\ p.criter = "sumsq" /\ p.ystart > 0
    /\ p.maxits = AmpleIts /\ p.critlim = -VeryLarge

C15_IterationCap ==
    [][ p.maxits > 0 =>
          /\ (p.pc = "head" /\ p.iter >= p.maxits) =>
                p' = [p EXCEPT !.pc = "done", !.iter = p.iter + 1]
          /\ p'.pc \in {"dir", "probe", "replace"} => p'.iter <= p.maxits
      ]_vars

\* a return by the iteration limit while the search was still improving and
\* critlim was not reached
C15_Witness ==
    /\ p.pc = "done" /\ p.maxits > 0 /\ p.iter = p.maxits + 1
    /\ p.convergence_counter = 0
    /\ ~PowellGoodEnough(p.fbest, p.critlim)
    /\ p.prev_best - p.fbest > PowellToler(p)

\* C16: a check at the head of an outer iteration (one not ended by the
\* iteration limit or by critlim) finds little improvement when prev_best -
\* fbest is within tol (|prev_best| <= 1) or tol * |prev_best| (otherwise);
\* it then adds 1 to the convergence counter, and any other check sets the
\* counter to 0.  The check stops the search exactly when it finds little
\* improvement and the check before it did too; otherwise the search goes
\* on to the line searches with prev_best = fbest.
C16_TwoSmallImprovementsStop ==
    [][ (p.pc = "head" /\ ~(p.iter >= p.maxits /\ p.maxits > 0)
           /\ ~(p.fbest < p.critlim)) =>
          LET toler == IF Abs(p.prev_best) <= FP
                          THEN p.tol ELSE Mul(p.tol, Abs(p.prev_best))
              little == p.prev_best - p.fbest <= toler
          IN  /\ p.convergence_counter \in {0, 1}
              /\ p'.convergence_counter =
                    IF little THEN p.convergence_counter + 1 ELSE 0
              /\ p'.pc = "done" <=> (little /\ p.convergence_counter = 1)
              /\ p'.pc # "done" => (p'.pc = "dir" /\ p'.prev_best = p.fbest)
      ]_vars

\* a return by the convergence counter, before the iteration limit and with
\* critlim not reached, of a run from the middle of the plateau: its first
\* iteration gains nothing (counter 1), its second reaches the moat (counter
\* back to 0)
C16_Witness ==
    /\ p.pc = "done" /\ p.convergence_counter = 2
    /\ p.maxits > 0 /\ p.iter <= p.maxits
    /\ ~(p.fbest < p.critlim)
    /\ p.prev_best - p.fbest <= PowellToler(p)
    /\ p.criter = "moat" /\ p.n = 1 /\ p.fbest < p.ystart /\ p.iter >= 5

\* C17: once powell has returned, none of the statics that outlive the call
\* (local_x, local_base, local_direc) refers to a buffer of the caller.
C17_NoPointersRetained ==
    p.pc = "done" =>
       /\ loc.x = "null"
       /\ loc.base = "null"
       /\ loc.direc = "null"

\* C18: a line-search evaluation of a call goes through the shared statics,
\* whichever call set them last: it writes base + t * direc of the buffers
\* they point to into the x buffer they point to and returns the criterion
\* they point to at that point (and leaves its own x alone when they point
\* to the other call's).  So with two calls overlapping there are
\* evaluations of one call that read the other's base, direction and
\* criterion and write the other's x: powell is not reentrant.
C18_EvaluationsGoThroughStatics ==
    [][ \A c \in Callers :
          (p[c].pc = "eval" /\ p'[c].evals = p[c].evals + 1) =>
             LET d == loc.x[1]
             IN  /\ evs'[1].by = c
                 /\ p'[d].x = PointAt(Buffer(loc.base), evs'[1].t, Buffer(loc.direc))
                 /\ evs'[1].y = Criter(loc.criter, p'[d].x)
                 /\ d # c => p'[c].x = p[c].x
      ]_vars

\* an evaluation of call 1 that read the base, the direction and the
\* criterion of call 2 and wrote the x buffer of call 2
C18_Witness ==
    /\ evs # << >>
    /\ evs[1].by = 1
    /\ evs[1].statics.x = <<2, "x">>
    /\ evs[1].statics.base = <<2, "base">>
    /\ evs[1].statics.direc[1] = 2
    /\ evs[1].statics.criter = p[2].criter
    /\ p[2].x = evs[1].point
    /\ p[2].x # p[2].base

\* C19: the direction matrix is the identity when the first outer iteration
\* begins; it changes only in the step that ends the replacement search of
\* an outer iteration, which follows a replacement test that passed, and
\* that step changes no row but row idelta.
C19_OneRowPerIteration ==
    [][ /\ (p.pc = "head" /\ p.iter = 0) => p.direc = Identity(p.n)
        /\ p'.direc # p.direc =>
              /\ p.pc = "replace" /\ p'.pc = "head"
              /\ p.replaced = p.idelta
              /\ \A r \in 1..p.n : r # p.idelta + 1 => p'.direc[r] = p.direc[r]
        /\ (p.pc = "probe" /\ p'.pc = "head") => p'.direc = p.direc
        /\ p'.pc = "replace" => p.pc = "probe"
      ]_vars

\* in two dimensions, the second row replaced and the first still the axis
C19_Witness ==
    /\ p.pc = "head" /\ p.n = 2 /\ p.iter >= 1
    /\ p.direc[1] = Identity(2)[1]
    /\ p.direc[2] # Identity(2)[2]
    /\ p.replaced = 1

\* the point 2x - p0 of line 499, x the point after the line searches and
\* p0 the point before them
PowellExtrapolated(s) == [i \in 1..s.n |-> 2 * s.x[i] - s.p0[i]]

\* C20: delta and idelta follow the largest improvement of a single line
\* search, the first on ties; the replacement search is entered exactly when
\* the value at 2x - p0 is below f0 and
\* 2*(f0 - 2*ftest + fval)*(f0 - ftest - delta)^2 < delta*(f0 - fval)^2;
\* the matrix changes only at the end of that search, when it did not end
\* by critlim, and row idelta then holds the net displacement of the line
\* searches divided by its Euclidean length.
C20_ReplacementRule ==
    [][ /\ (p.pc = "dir" /\ p'.pc # "done") =>
              IF PowellSkips(p)
                 THEN p'.delta = p.delta /\ p'.idelta = p.idelta
                 ELSE IF p.fbest - p'.fval > p.delta
                         THEN p'.delta = p.fbest - p'.fval /\ p'.idelta = p.idir
                         ELSE p'.delta = p.delta /\ p'.idelta = p.idelta
        /\ p.pc = "probe" =>
              /\ p'.p0 = [i \in 1..p.n |-> p.x[i] - p.p0[i]]
              /\ p'.fval = Criter(p.criter, PowellExtrapolated(p))
              /\ p'.ftest = p.fbest
              /\ p'.delta = p.delta /\ p'.idelta = p.idelta /\ p'.f0 = p.f0
              /\ p'.pc = "replace" <=>
                    /\ p'.fval < p.f0
                    /\ LET test == p.f0 - p'.ftest - p.delta
                       IN  Mul(Mul(2 * (p.f0 - 2 * p'.ftest + p'.fval), test), test)
                              < Mul(Mul(p.delta, p.f0 - p'.fval), p.f0 - p'.fval)
              /\ p'.pc = "replace" => p'.replaced = p.idelta /\ p.delta > -FP
              /\ p'.pc # "replace" => p'.replaced = -1
        /\ p'.pc = "replace" => p.pc = "probe"
        /\ p'.direc # p.direc =>
              /\ p.pc = "replace" /\ p'.pc = "head"
              /\ LET len == PowellLength(p.p0)
                     sq == SumSeq([i \in 1..p.n |-> p.p0[i] * p.p0[i]])
                 IN  /\ len * len <= sq /\ sq < (len + 1) * (len + 1)
                     /\ p'.direc[p.idelta + 1] = [i \in 1..p.n |-> Div(p.p0[i], len)]
                     /\ ~PowellLineSearch(p, p'.direc[p.idelta + 1]).finish
                     /\ p'.x = PowellLineSearch(p, p'.direc[p.idelta + 1]).x
        /\ (p.pc = "replace" /\ p'.pc = "done") =>
              /\ p'.direc = p.direc
              /\ PowellLineSearch(p, PowellUnit(p)).finish
      ]_vars

\* a row other than the first was replaced by a direction off the axes,
\* after the second line search gave the largest improvement
C20_Witness ==
    /\ p.pc = "head" /\ p.n = 2 /\ p.iter >= 1
    /\ p.replaced = 1 /\ p.idelta = 1
    /\ p.direc[2] = p.p0
    /\ p.p0[1] # 0 /\ p.p0[2] # 0

\* C21: replaced is -1 at entry, is set by the replacement tests alone (to
\* idelta when they pass, to -1 when they fail) and row replaced is the row
\* installed; a pass of the direction loop does no line search exactly when
\* n > 1, the direction is the first and replaced is 0, and otherwise
\* searches from x along row idir; the passes take idir from 0 to n - 1.
C21_SkipsFirstDirectionWhenReplaced ==
    [][ /\ (p.pc = "head" /\ p.iter = 0) => p.replaced = -1
        /\ p.pc # "probe" => p'.replaced = p.replaced
        /\ p.pc = "probe" =>
              p'.replaced = IF p'.pc = "replace" THEN p.idelta ELSE -1
        /\ (p.pc = "replace" /\ p'.pc = "head") =>
              p'.direc = [p.direc EXCEPT ![p.replaced + 1] = p'.p0]
        /\ (p.pc = "head" /\ p'.pc = "dir") => p'.idir = 0
        /\ p'.pc = "probe" => p.pc = "dir" /\ p'.idir = p.n
        /\ p.pc = "dir" =>
              /\ p.idir < p.n
              /\ IF p.n > 1 /\ p.idir = 0 /\ p.replaced = 0
                     THEN /\ loc' = loc
                          /\ p' = [p EXCEPT !.idir = 1, !.pc = "dir"]
                     ELSE /\ loc'.direc = <<"direc", p.idir>>
                          /\ p'.base = p.x
                          /\ p'.x = PowellLineSearch(p, p.direc[p.idir + 1]).x
                          /\ p'.pc # "done" => p'.idir = p.idir + 1
      ]_vars

\* the second direction is next and the statics still hold the direction of
\* the replacement search: the first direction, just replaced, was not
\* searched
C21_Witness ==
    /\ p.pc = "dir" /\ p.n = 2 /\ p.idir = 1 /\ p.replaced = 0
    /\ loc.direc = <<"p0">>
    /\ p.iter >= 2 /\ p.direc[1] # Identity(2)[1]

\* the glob_min call of a line search of s along d with multiplier mult
PowellTry(s, d, mult, y2) ==
    GlobRun(GlobEnter(-Mul(mult, s.scale), Mul(mult, s.scale), PowellGridPts, 0,
                      s.critlim, y2), Statics(s, d))

StrictBracket(r) == r.y2 < r.y1 /\ r.y2 < r.y3

\* the calls with mult = 0.1, 0.4, 1.6 and 6.4, each made when the one before
\* returned no strict bracket and given its y2
PowellTries(s, d) ==
    The({IF StrictBracket(t1) THEN <<t1>> ELSE
    The({IF StrictBracket(t2) THEN <<t1, t2>> ELSE
    The({IF StrictBracket(t3) THEN <<t1, t2, t3>> ELSE
    The({<<t1, t2, t3, t4>> :
            t4 \in {PowellTry(s, d, 64 * FirstMult, t3.y2)}}) :
            t3 \in {PowellTry(s, d, 16 * FirstMult, t2.y2)}}) :
            t2 \in {PowellTry(s, d, 4 * FirstMult, t1.y2)}}) :
            t1 \in {PowellTry(s, d, FirstMult, s.fbest)}})

\* the line search of s along d went on from the triple r
PowellWentOnFrom(s, d, r, t) ==
    IF r.y2 < s.critlim
       THEN t.pc = "done"
       ELSE The({/\ t.fval = m.y0
                 /\ t.x = PointAt(s.x, m.xb, d) :
                 m \in {PowellRefine(s, Statics(s, d), r)}})

PowellSearchedFrom(s, d, t) ==
    The({/\ \A i \in 1..Len(tr) : tr[i].low = -tr[i].high
         /\ PowellWentOnFrom(s, d, tr[Len(tr)], t) :
         tr \in {PowellTries(s, d)}})

C23_LineSearchNeverWorsens ==
    [][ (p.pc = "dir" \/ p.pc = "replace") => p'.fbest <= p.fbest ]_vars

----------------------------------------------------------------------------
(* Properties of brentmin's choice of the step *)

\* a pass of brentmin's loop that evaluated the criterion
BrentPassed == b.pc = "loop" /\ Len(evs') = Len(evs) + 1

\* the step of that pass: from x0 to the abscissa evaluated
BrentStepTaken == evs'[Len(evs')].x - b.x0

\* 0.3819660 times the distance from x0 to the end of the larger half
GoldenStep(s) ==
    Mul(Golden, IF RoundDiv(s.xleft + s.xright, 2) > s.x0 THEN s.xright - s.x0
                                                           ELSE s.xleft - s.x0)

SmallStep(s) == Mul(IF Abs(s.x0) < FP THEN FP ELSE Abs(s.x0), s.tol)

\* small_step toward the middle of the bracket
StepTowardMiddle(s) ==
    IF s.x0 < RoundDiv(s.xleft + s.xright, 2) THEN SmallStep(s) ELSE -SmallStep(s)

\* the parabolic estimate lands strictly inside the bracket
ParabolaInside(s) ==
    /\ s.x0 + BrentParabola(s) > s.xleft
    /\ s.x0 + BrentParabola(s) < s.xright

\* the parabolic step, replaced when it lands within small_dist of an end
ParabolicStep(s) ==
    IF \/ s.x0 + BrentParabola(s) - s.xleft < 2 * SmallStep(s)
       \/ s.xright - (s.x0 + BrentParabola(s)) < 2 * SmallStep(s)
       THEN StepTowardMiddle(s)
       ELSE BrentParabola(s)

\* a step shorter than small_step is lengthened to small_step (lines 287-290)
AtLeastSmallStep(s, trial) ==
    IF Abs(trial) >= SmallStep(s) THEN trial
    ELSE IF trial > 0 THEN SmallStep(s) ELSE -SmallStep(s)

\* C24 as stated: a parabolic step is taken only with twice its length below
\* the length of the step of the pass before and the point strictly inside
\* the bracket (and is small_step toward the middle when it lands within
\* small_dist of an end); in every other case the step is the golden-section
\* step.
C24_ParabolicOnlyUnderHalfPreviousStep ==
    [][ BrentPassed =>
          IF 2 * Abs(BrentParabola(b)) < Abs(b.trial) /\ ParabolaInside(b)
             THEN BrentStepTaken \in {ParabolicStep(b), GoldenStep(b)}
             ELSE BrentStepTaken = GoldenStep(b)
      ]_vars

\* C24, amended: the parabolic step is tried when |movement| > small_step
\* and taken exactly when twice its length is below |movement| and the
\* point is strictly inside the bracket, movement being the step chosen two
\* passes before or, after a golden-section pass, the whole distance to the
\* bracket end of that pass; otherwise the golden-section step is chosen;
\* and a chosen step shorter than small_step is lengthened to small_step.
C24_ParabolicOnlyUnderHalfMovement ==
    [][ BrentPassed =>
          /\ BrentStepTaken =
                AtLeastSmallStep(b,
                   IF /\ Abs(b.movement) > SmallStep(b)
                      /\ 2 * Abs(BrentParabola(b)) < Abs(b.movement)
                      /\ ParabolaInside(b)
                      THEN ParabolicStep(b)
                      ELSE GoldenStep(b))
          /\ b'.movement =
                IF /\ Abs(b.movement) > SmallStep(b)
                   /\ 2 * Abs(BrentParabola(b)) < Abs(b.movement)
                   /\ ParabolaInside(b)
                   THEN b.trial
                   ELSE IF RoundDiv(b.xleft + b.xright, 2) > b.x0
                           THEN b.xright - b.x0 ELSE b.xleft - b.x0
      ]_vars

\* after a pass that took the parabolic step (not replaced, not lengthened)
\* although twice its length was not below the length of the step of the
\* pass before, which movement now holds
C24_Witness ==
    /\ b.pc = "loop" /\ b.iter >= 2 /\ evs # << >>
    /\ b.movement # 0
    /\ 2 * Abs(b.trial) >= Abs(b.movement)
    /\ Abs(b.trial) > SmallStep([b EXCEPT !.x0 = b.x1])
    /\ Abs(b.trial) > SmallStep(b)
    /\ evs[Len(evs)].x - b.trial \in {b.x0, b.x1}

\* the denominator of line 261
ParabolaDenominator(s) ==
    2 * (Mul(s.x0 - s.x2, s.y0 - s.y1) - Mul(s.x0 - s.x1, s.y0 - s.y2))

\* C25: in a pass that computes the parabolic denominator and finds its
\* magnitude at most 1.e-40, the step is the golden-section step (lengthened
\* to small_step when shorter) and the abscissa evaluated is strictly inside
\* the bracket.
C25_TinyDenominatorTakesGolden ==
    [][ (/\ BrentPassed
         /\ Abs(b.movement) > SmallStep(b)
         /\ Abs(ParabolaDenominator(b)) <= Tiny) =>
            /\ BrentStepTaken = AtLeastSmallStep(b, GoldenStep(b))
            /\ b.xleft < evs'[Len(evs')].x
            /\ evs'[Len(evs')].x < b.xright
      ]_vars

\* (y2 - y0) / (y0 + 1.0) < eps, the quotient by zero being an infinity or
\* a NaN
RatioBelowEps(s) ==
    IF s.y0 + FP = 0 THEN s.y2 < s.y0
                     ELSE Div(s.y2 - s.y0, s.y0 + FP) < s.eps

\* C26: iter counts the evaluations of the call; a pass that is within
\* itmax, with y0 not below critlim and the bracket not small, ends the loop
\* exactly when iter >= 4 and (y2 - y0)/(y0 + 1) < eps, so that before the
\* fourth evaluation only critlim and the bracket width end it; from the
\* fourth evaluation on y0 <= y1 <= y2.
C26_FunctionTestFromFourthPass ==
    [][ b.pc = "loop" =>
          /\ b.iter = Len(evs)
          /\ b.iter >= 4 => b.y0 <= b.y1 /\ b.y1 <= b.y2
          /\ (/\ b.iter < b.itmax
              /\ ~(b.y0 < b.critlim)
              /\ ~(Abs(b.x0 - RoundDiv(b.xleft + b.xright, 2))
                       <= 2 * SmallStep(b) - RoundDiv(b.xright - b.xleft, 2))) =>
                (b'.pc = "done" <=> (b.iter >= 4 /\ RatioBelowEps(b)))
      ]_vars

\* a return by the function test at the fourth pass, the values tracked
\* being different
C26_Witness ==
    /\ b.pc = "done" /\ b.iter = 4 /\ b.iter < b.itmax /\ Len(evs) = 4
    /\ ~(b.y0 < b.critlim)
    /\ ~(Abs(b.x0 - RoundDiv(b.xleft + b.xright, 2))
             <= 2 * SmallStep(b) - RoundDiv(b.xright - b.xleft, 2))
    /\ b.y0 < b.y2
    /\ RatioBelowEps(b)

----------------------------------------------------------------------------
(* Properties of glob_min's extensions *)

\* the evaluation made in the step
LastEval == evs'[Len(evs')]

\* the scan is followed by the right extension exactly when its best point
\* is the last grid point and by the left extension exactly when it is the
\* first, the first point tried being one grid step beyond x2.  A pass of
\* the right extension evaluates x3; it ends the call exactly when the value
\* is above y2 or y1 = y2 = y3, and otherwise shifts the triple right,
\* doubles the step and goes on; the left extension does the same with x1
\* and x3 exchanged.
ExtensionStep ==
    /\ (g.pc = "scan" /\ g'.pc # "scan") =>
          /\ g'.pc = IF g'.ibest = g'.npts - 1 THEN "right"
                     ELSE IF g'.ibest = 0 THEN "left" ELSE "done"
          /\ g'.x3 = IF g.log_space = 1 THEN Mul(g'.x2, g'.rate)
                                        ELSE g'.x2 + g'.rate
          /\ g'.x1 = IF g.log_space = 1 THEN Div(g'.x2, g'.rate)
                                        ELSE g'.x2 - g'.rate
    /\ g.pc = "right" =>
          /\ LastEval.x = g.x3 /\ Len(evs') = Len(evs) + 1
          /\ IF LastEval.y > g.y2 \/ (g.y1 = g.y2 /\ g.y2 = LastEval.y)
                 THEN /\ g'.pc = "done"
                      /\ <<g'.x1, g'.x2, g'.x3>> = <<g.x1, g.x2, g.x3>>
                      /\ <<g'.y1, g'.y2, g'.y3>> = <<g.y1, g.y2, LastEval.y>>
                 ELSE /\ g'.pc = "right"
                      /\ <<g'.x1, g'.y1>> = <<g.x2, g.y2>>
                      /\ <<g'.x2, g'.y2>> = <<g.x3, LastEval.y>>
                      /\ g'.rate = Saturated(2 * g.rate)
                      /\ IF g.log_space = 1
                            THEN g'.x3 = Mul(g'.x2, 2 * g.rate)
                            ELSE g'.x3 = Saturated(g'.x2 + 2 * g.rate)
    /\ g.pc = "left" =>
          /\ LastEval.x = g.x1 /\ Len(evs') = Len(evs) + 1
          /\ IF LastEval.y > g.y2 \/ (LastEval.y = g.y2 /\ g.y2 = g.y3)
                 THEN /\ g'.pc = "done"
                      /\ <<g'.x1, g'.x2, g'.x3>> = <<g.x1, g.x2, g.x3>>
                      /\ <<g'.y1, g'.y2, g'.y3>> = <<LastEval.y, g.y2, g.y3>>
                 ELSE /\ g'.pc = "left"
                      /\ <<g'.x3, g'.y3>> = <<g.x2, g.y2>>
                      /\ <<g'.x2, g'.y2>> = <<g.x1, LastEval.y>>
                      /\ g'.rate = Saturated(2 * g.rate)
                      /\ IF g.log_space = 1
                            THEN g'.x1 = Div(g'.x2, 2 * g.rate)
                            ELSE g'.x1 = Saturated(g'.x2 - 2 * g.rate)

\* the call is on a criterion that decreases without end
OnDescent == "criter" \in DOMAIN g /\ g.criter \in {"down", "up"}

\* C27 as stated: the extensions go by doubled steps until the value rises
\* or three values are equal, and on a criterion that decreases without end
\* in the direction of the extension the call never returns.
C27_ExtensionNeverEndsOnDescent ==
    [][ /\ ExtensionStep
        /\ (OnDescent /\ g.pc \in {"right", "left"}) => g'.pc # "done"
      ]_vars

\* C27, amended: the extensions go by doubled steps until the value rises
\* or three values are equal, with no limit on the passes; on a criterion
\* that decreases without end the abscissa doubles its way to infinity,
\* where the criterion returns the same value again, and the call returns
\* by the test of three equal values with x2 and the end beyond it infinite.
C27_ExtensionEndsAtOverflow ==
    [][ /\ ExtensionStep
        /\ (OnDescent /\ g.pc \in {"right", "left"} /\ g'.pc = "done") =>
              /\ Abs(g'.x2) = Infinite
              /\ g'.x3 = Infinite \/ g'.x1 = -Infinite
              /\ g'.y1 = g'.y2 /\ g'.y2 = g'.y3
              /\ g'.ext >= 3
      ]_vars

\* the call on -x has returned after its steps were doubled to infinity
C27_Witness ==
    /\ g.pc = "done" /\ OnDescent /\ g.criter = "down"
    /\ g.x3 = Infinite /\ g.ext >= 8
    /\ evs[Len(evs)].phase = "right"
    /\ evs[g.npts + 2].x - evs[g.npts + 1].x
          = 2 * (evs[g.npts + 1].x - evs[g.npts].x)

----------------------------------------------------------------------------
(* Properties of brentmin's bracket *)

\* C28: at the head of every pass xleft <= x0 <= xright, inside the bracket
\* given to the call; the abscissa a pass evaluates is strictly inside
\* (xleft, xright); a pass does not lower xleft nor raise xright; and the
\* bracket returned lies in the bracket given and contains *xb.
C28_BracketShrinksAroundBest ==
    [][ /\ b.pc = "loop" =>
              /\ b.xleft <= b.x0 /\ b.x0 <= b.xright
              /\ b.entry[1] <= b.xleft /\ b.xright <= b.entry[3]
        /\ (b.pc = "loop" /\ Len(evs') = Len(evs) + 1) =>
              /\ b.xleft < evs'[Len(evs')].x
              /\ evs'[Len(evs')].x < b.xright
              /\ b.xleft <= b'.xleft /\ b'.xright <= b.xright
              /\ b'.xleft <= b'.x0 /\ b'.x0 <= b'.xright
        /\ b'.pc = "done" =>
              /\ b'.entry[1] <= b'.xa /\ b'.xa <= b'.xb
              /\ b'.xb <= b'.xc /\ b'.xc <= b'.entry[3]
              /\ <<b'.xa, b'.xb, b'.xc>> = <<b.xleft, b.x0, b.xright>>
      ]_vars

\* a return with both ends of the bracket moved inward and the best point
\* moved
C28_Witness ==
    /\ b.pc = "done" /\ Len(evs) >= 3
    /\ b.entry[1] < b.xa /\ b.xc < b.entry[3]
    /\ b.xa < b.xb /\ b.xb < b.xc
    /\ b.xb # b.entry[2]

----------------------------------------------------------------------------
(* Properties of the triple glob_min returns *)

\* y is the value of the criterion at x: of the known criterion of the
\* call, or else the value recorded when the criterion was evaluated at x
IsValueAt(x, y) ==
    IF "criter" \in DOMAIN g THEN y = DescentValue(g.criter, x)
                              ELSE x \in DOMAIN memo /\ memo[x] = y

\* C29 as stated: on every return of a call with linear spacing the
\* abscissas are in order, x1 < x2 < x3, and y1, y2, y3 are the values of
\* the criterion at x1, x2, x3.
C29_TripleIsOrderedAndEvaluated ==
    (g.pc = "done" /\ g.log_space = 0) =>
       /\ g.x1 < g.x2 /\ g.x2 < g.x3
       /\ IsValueAt(g.x1, g.y1)
       /\ IsValueAt(g.x2, g.y2)
       /\ IsValueAt(g.x3, g.y3)

\* C29, amended: on every return of a call with linear spacing y1, y2, y3
\* are the values of the criterion at x1, x2, x3, and x1 < x2 < x3 unless
\* an extension took the abscissas to infinity, in which case x2 and the
\* end beyond it are the same infinity and the three values are equal.
C29_TripleIsEvaluatedAndOrderedUnlessInfinite ==
    (g.pc = "done" /\ g.log_space = 0) =>
       /\ IsValueAt(g.x1, g.y1)
       /\ IsValueAt(g.x2, g.y2)
       /\ IsValueAt(g.x3, g.y3)
       /\ IF Abs(g.x1) = Infinite \/ Abs(g.x3) = Infinite
             THEN /\ g.x1 <= g.x2 /\ g.x2 <= g.x3
                  /\ Abs(g.x2) = Infinite
                  /\ g.y1 = g.y2 /\ g.y2 = g.y3
             ELSE g.x1 < g.x2 /\ g.x2 < g.x3

\* a return with the best point of the scan at the first grid point: y1,
\* which the scan left at its initial 0.0, holds the value found below low
C29_Witness ==
    /\ g.pc = "done" /\ g.log_space = 0 /\ g.ibest = 0
    /\ g.x1 < g.x2 /\ g.x2 < g.low /\ g.x3 <= g.low
    /\ evs[Len(evs)].phase = "left"
    /\ g.y1 # 0 /\ IsValueAt(g.x1, g.y1)

----------------------------------------------------------------------------
(* Properties of where glob_min evaluates the criterion *)

\* the scan is over: lines 104-117 have run
GlobScanOver == g.pc \in {"right", "left", "done"}

\* the evaluations of the call so far that a phase made
GlobEvalsOf(phase) == {k \in 1..Len(evs) : evs[k].phase = phase}

\* lines 67 and 98-101: the abscissa of grid point i, reached from low by
\* i advances with the step rate
RECURSIVE GlobGridPoint(_, _, _)
GlobGridPoint(s, rate, i) ==
    IF i = 0 THEN s.low
    ELSE GlobAdvance([x |-> GlobGridPoint(s, rate, i - 1),
                      log_space |-> s.log_space, rate |-> rate])

\* the grid of the call: its points by index, with the step of lines 62-65
GlobGrid(s) ==
    The({[i \in 0..(s.npts - 1) |-> GlobGridPoint(s, rate, i)] :
            rate \in {GlobRate(s.low, s.high, s.npts, s.log_space)}})

\* the last grid point
GlobLastPoint(s) == GlobGrid(s)[s.npts - 1]

\* C30 (as stated): after the scan, if the best grid point is neither the
\* first nor the last, every evaluation of the call lies in [low, high]; a
\* point above high is evaluated only when the best grid point is the last
\* one, a point below low only when it is the first, and no call has
\* evaluations of both extensions.
C30_OutsideOnlyWhenExtending ==
    GlobScanOver =>
       /\ (g.ibest # 0 /\ g.ibest # g.npts - 1) =>
             \A k \in 1..Len(evs) : g.low <= evs[k].x /\ evs[k].x <= g.high
       /\ (\E k \in 1..Len(evs) : evs[k].x > g.high) => g.ibest = g.npts - 1
       /\ (\E k \in 1..Len(evs) : evs[k].x < g.low) => g.ibest = 0
       /\ GlobEvalsOf("right") = {} \/ GlobEvalsOf("left") = {}

\* C30 (amended): the scan evaluates grid points only, all of them in
\* [low, last grid point], and the last grid point is high up to the
\* rounding of the step (with linear spacing at most half a unit per step
\* away from it, on either side). After the scan, the right extension has
\* evaluated points only if the best grid point is the last one, and all of
\* them lie above the last grid point; the left extension has evaluated
\* points only if the best grid point is the first one, and all of them lie
\* below low; no call has evaluations of both extensions; so a call whose
\* best grid point is neither first nor last evaluates grid points only.
C30_OutsideGridOnlyWhenExtending ==
    \A grid \in {GlobGrid(g)} :
       LET last == grid[g.npts - 1]
       IN  /\ \A k \in GlobEvalsOf("scan") :
                 /\ g.low <= evs[k].x /\ evs[k].x <= last
                 /\ \E i \in DOMAIN grid : evs[k].x = grid[i]
           /\ g.log_space = 0 => 2 * Abs(last - g.high) <= g.npts - 1
           /\ GlobScanOver =>
                 /\ GlobEvalsOf("right") # {} => g.ibest = g.npts - 1
                 /\ GlobEvalsOf("left") # {} => g.ibest = 0
                 /\ \A k \in GlobEvalsOf("right") : evs[k].x > last
                 /\ \A k \in GlobEvalsOf("left") : evs[k].x < g.low
                 /\ GlobEvalsOf("right") = {} \/ GlobEvalsOf("left") = {}
                 /\ (g.ibest # 0 /\ g.ibest # g.npts - 1) =>
                       GlobEvalsOf("scan") = 1..Len(evs)

\* a call has returned after a left extension below low, its best grid point
\* the first, and its scan had evaluated a last grid point above high
C30_Witness ==
    /\ g.pc = "done"
    /\ g.ibest = 0
    /\ \E k \in GlobEvalsOf("left") : evs[k].x < g.low
    /\ \E k \in GlobEvalsOf("scan") : evs[k].x > g.high /\ evs[k].x = GlobLastPoint(g)

============================================================================
